---- MODULE Spec2Model ----
(***************************************************************************)
(* A model of cbc.c, a chained-block Feistel cipher that encrypts or       *)
(* decrypts standard input to standard output.                             *)
(*                                                                         *)
(* Bytes are the naturals 0..255 (the bit pattern of a C char).  A C       *)
(* string is the sequence of its bytes without the terminating NUL; the    *)
(* byte at C index j of a string s is s[j+1].  The local buffers are       *)
(* functions from the C byte offset (0-based) to a byte, and the block     *)
(* pointers lbp, bp, obp are offsets into buf.                             *)
(***************************************************************************)
EXTENDS Integers, Sequences, FiniteSets, TLC

\* ------------------------------------------------------------- constants

\* #define BLOCK_SIZE 8
BLOCK_SIZE == 8

\* #define ROUNDS 16
ROUNDS == 16

\* #define STDIN 0, #define STDOUT 1
STDIN == 0

STDOUT == 1

\* The characters main() compares against.
CH_DASH == 45

CH_D == 100

\* The content of a byte of buf that no statement has written yet.
UNINIT == 256

\* ---------------------------------------------------------------- bounds

\* Longest standard input of a session's first run, in bytes.
MaxLen == 17

\* Most I/O faults (failed or short read, write, open) the environment
\* injects in one session.
MaxFaults == 1

\* Most block transforms applied in a row to one block (block-level model).
MaxOps == 2

\* ------------------------------------------------------------- byte ops

RECURSIVE XorAsOr(_, _)
\* | written for ^.
XorAsOr(a, b) ==
    IF a = 0 THEN b
    ELSE IF b = 0 THEN a
    ELSE (IF (a % 2) + (b % 2) > 0 THEN 1 ELSE 0) + (2 * XorAsOr(a \div 2, b \div 2))

RECURSIVE Xor(_, _)
\* The C operator ^ on two bytes.
Xor(a, b) ==
    IF a = 0 THEN b
    ELSE IF b = 0 THEN a
    ELSE (((a % 2) + (b % 2)) % 2) + (2 * Xor(a \div 2, b \div 2))

\* *(s + j) for a NUL-terminated string s: the terminator reads as 0.
CharAt(s, j) ==
    IF j >= 0 /\ j < Len(s) THEN s[j + 1] ELSE 0

\* *(kp + j): the key byte at C index j.
KeyByte(kp, j) == CharAt(kp, j)

\* s + 1 for a string pointer s (++argp).
StrInc(s) ==
    IF Len(s) = 0 THEN s ELSE Tail(s)

\* strlen(s)
strlen(s) == Len(s)

\* The 8 bytes of buffer b at offset p, as a block 0..7.
BlockAt(b, p) ==
    [m \in 0..(BLOCK_SIZE - 1) |-> b[p + m]]

\* Buffer b with the block blk stored at offset p.
StoreBlock(b, p, blk) ==
    [x \in DOMAIN b |->
        IF x >= p /\ x < p + BLOCK_SIZE THEN blk[x - p] ELSE b[x]]

\* A write that always sends the whole block, whatever the count.
BytesAtWholeBlock(b, p, c) ==
    [j \in 1..BLOCK_SIZE |-> b[p + j - 1]]

\* The first c bytes at offset p of buffer b, as a sequence (what write()
\* sends for a count c).
BytesAt(b, p, c) ==
    [j \in 1..c |-> b[p + j - 1]]

\* ------------------------------------------------------ block transform

\* A round function that mixes the half-block byte in: r ^ k.
fMixing(r, k) == Xor(r, k)

\* Feistel one-way function: int f (char r, char k) { return k; }
f(r, k) == k

RECURSIVE EncInner(_, _, _, _)
\* One pass of the for loop of encryptBlock, from half-index i, with the
\* key cursor at cur (kp++ after each byte).
EncInner(b, kp, cur, i) ==
    LET k == BLOCK_SIZE \div 2
    IN  IF i >= k THEN b
        ELSE EncInner([b EXCEPT ![k + i] = Xor(b[i], f(b[k + i], KeyByte(kp, cur))),
                                ![i] = b[k + i]],
                      kp, cur + 1, i + 1)

RECURSIVE DecInner(_, _, _, _)
\* One pass of the for loop of decryptBlock.
DecInner(b, kp, cur, i) ==
    LET k == BLOCK_SIZE \div 2
    IN  IF i >= k THEN b
        ELSE DecInner([b EXCEPT ![i] = Xor(b[k + i], f(b[i], KeyByte(kp, cur))),
                                ![k + i] = b[i]],
                      kp, cur + 1, i + 1)

\* The key cursor after one round of encryptBlock.
EncCursorNext(cur) == cur + (BLOCK_SIZE \div 2)

\* kp -= 2 * k left out: the cursor moves on as in encryptBlock.
DecCursorNextNoRetreat(cur) == cur + (BLOCK_SIZE \div 2)

\* The key cursor after one round of decryptBlock: k increments, kp -= 2*k.
DecCursorNext(cur) == (cur + (BLOCK_SIZE \div 2)) - (2 * (BLOCK_SIZE \div 2))

\* kp += r * k: one round too far.
DecCursorStartOffByOne == ROUNDS * (BLOCK_SIZE \div 2)

\* decryptBlock's first cursor: kp += (r - 1) * k.
DecCursorStart == (ROUNDS - 1) * (BLOCK_SIZE \div 2)

\* One round of encryptBlock on its locals st = [b, cur, r]: the block, the
\* key cursor (kp - key) and the rounds left.
EncRound(st, kp) ==
    [b |-> EncInner(st.b, kp, st.cur, 0), cur |-> EncCursorNext(st.cur), r |-> st.r - 1]

\* One round of decryptBlock on its locals.
DecRound(st, kp) ==
    [b |-> DecInner(st.b, kp, st.cur, 0), cur |-> DecCursorNext(st.cur), r |-> st.r - 1]

RECURSIVE EncLoop(_, _)
\* while (r--) of encryptBlock.
EncLoop(st, kp) ==
    IF st.r = 0 THEN st.b ELSE EncLoop(EncRound(st, kp), kp)

RECURSIVE DecLoop(_, _)
\* while (r--) of decryptBlock.
DecLoop(st, kp) ==
    IF st.r = 0 THEN st.b ELSE DecLoop(DecRound(st, kp), kp)

\* encryptBlock's locals on entry: r = ROUNDS, kp at the key's start.
EncEntry(b) == [b |-> b, cur |-> 0, r |-> ROUNDS]

\* decryptBlock's locals on entry: r = ROUNDS, kp += (r - 1) * k.
DecEntry(b) == [b |-> b, cur |-> DecCursorStart, r |-> ROUNDS]

encryptBlock(b, kp) == EncLoop(EncEntry(b), kp)

\* while (--r): one round short.
DecryptBlockOneRoundShort(b, kp) ==
    DecLoop([b |-> b, cur |-> DecCursorStart, r |-> ROUNDS - 1], kp)

decryptBlock(b, kp) == DecLoop(DecEntry(b), kp)

\* The XOR loop left out: b as it was.
XorPrefixSkipped(b, l, c) == b

\* Byte-wise b[i] ^= l[i] for i < c (the XOR loops of the stream routines).
XorPrefix(b, l, c) ==
    [m \in 0..(BLOCK_SIZE - 1) |-> IF m < c THEN Xor(b[m], l[m]) ELSE b[m]]

\* ------------------------------------------------------------ the inputs

\* (BLOCK_SIZE / 2) * ROUNDS, the key length main() demands.
KEY_LEN == (BLOCK_SIZE \div 2) * ROUNDS

\* argv[0]
ProgName == <<99, 98, 99>>

\* "-d" and "-x"
FlagD == <<CH_DASH, CH_D>>

FlagX == <<CH_DASH, 120>>

\* A 64-character key of lower-case letters.
KeyA == [i \in 1..KEY_LEN |-> 97 + ((((i * i) * i) + (5 * i)) % 26)]

\* A 64-character key of printable characters.
KeyB == [i \in 1..KEY_LEN |-> 48 + ((((i * i) * 3) + i) % 75)]

\* Strings of 63 and 65 characters, and strings that begin with '-'.
KeyShort == SubSeq(KeyA, 1, KEY_LEN - 1)

KeyLong == KeyA \o <<122>>

DashKey == <<CH_DASH>> \o KeyA

DashShort == <<CH_DASH>> \o KeyShort

Args == {FlagD, KeyA, KeyB, KeyShort, KeyLong, DashKey, DashShort}

\* The command lines of a session's first run.
ArgvSet ==
    {<<ProgName>>} \cup {<<ProgName, a>> : a \in Args}
    \cup {<<ProgName, FlagD, b>> : b \in Args}
    \cup {<<ProgName, FlagX, KeyA>>, <<ProgName, KeyA, FlagD>>,
          <<ProgName, FlagD, KeyA, KeyA>>}

\* The standard input of a session's first run: len bytes.
PlainText(len) == [i \in 1..len |-> ((i * 37) + 11) % 256]

\* The blocks the entropy source may deliver.
IvA == [m \in 0..(BLOCK_SIZE - 1) |-> ((m * 29) + 7) % 256]

IvB == [IvA EXCEPT ![5] = 200]

IVs == {IvA, IvB}

\* The short counts a faulty read or write may return.
ShortCounts == {1, 5}

\* ------------------------------------------------------------- the state

VARIABLES
    argv,       \* main's argv, a sequence of strings (argc = Len(argv))
    stdin,      \* the bytes standard input has yet to deliver
    stdout,     \* the bytes written to standard output by the current run
    pc,         \* the program's position
    flags,      \* flags.is_decrypting
    kp,         \* main's kp (the key string the stream routine is given)
    buf,        \* the stream routine's local buf
    lbp, bp, obp,   \* the block pointers, as offsets into buf
    bytes,      \* the local bytes (the last read's result)
    n,          \* the local n
    rfp,        \* the descriptor of the entropy source
    ret,        \* the stream routine's return value
    msg,        \* what main reported: "usage" (on stdout), "keylen", "failure", "count"
    run,        \* the number of the current run in the session
    input0,     \* standard input as it was when the run started
    iv,         \* the block the entropy source delivered in this run
    faults,     \* I/O faults injected so far in the session
    runFaults,  \* the kinds of I/O fault injected in this run
    ioLog,      \* the run's system calls: [fd, op, req, res]
    oob,        \* whether the run accessed a byte outside buf
    hist,       \* the finished runs of the session
    blk,        \* block-level model: the block a transform works on
    bkey,       \* the key it is given
    bvals,      \* the block before the first and after each finished transform
    bmode,      \* "ready", or "enc"/"dec" inside encryptBlock/decryptBlock
    brounds,    \* the local r
    bcur,       \* the local kp, as an index into the key
    bops,       \* the transforms finished so far
    bkeyReads   \* the key indices the running transform has dereferenced

streamVars ==
    <<argv, stdin, stdout, pc, flags, kp, buf, lbp, bp, obp, bytes, n, rfp, ret,
      msg, run, input0, iv, faults, runFaults, ioLog, oob, hist>>

blockVars == <<blk, bkey, bvals, bmode, brounds, bcur, bops, bkeyReads>>

vars == <<streamVars, blockVars>>

\* A block whose bytes are all v.
ConstBlock(v) == [m \in 0..(BLOCK_SIZE - 1) |-> v]

\* char buf[slots * BLOCK_SIZE], not initialised.
FreshBuf(slots) == [x \in 0..((slots * BLOCK_SIZE) - 1) |-> UNINIT]

\* The block-level variables while the stream model runs.
BlockIdle ==
    /\ blk = ConstBlock(0)
    /\ bkey = <<>>
    /\ bvals = <<>>
    /\ bmode = "idle"
    /\ brounds = 0
    /\ bcur = 0
    /\ bops = <<>>
    /\ bkeyReads = <<>>

Init ==
    /\ argv \in ArgvSet
    /\ \E len \in 0..MaxLen : stdin = PlainText(len)
    /\ input0 = stdin
    /\ stdout = <<>>
    /\ pc = "main"
    /\ flags = FALSE
    /\ kp = <<>>
    /\ buf = FreshBuf(2)
    /\ lbp = 0
    /\ bp = 0
    /\ obp = 0
    /\ bytes = 0
    /\ n = 0
    /\ rfp = 0
    /\ ret = 0
    /\ msg = "none"
    /\ run = 1
    /\ iv = ConstBlock(UNINIT)
    /\ faults = 0
    /\ runFaults = {}
    /\ ioLog = <<>>
    /\ oob = FALSE
    /\ hist = <<>>
    /\ BlockIdle

\* ------------------------------------------------------------------ main

RECURSIVE ParseLoop(_, _, _, _, _)
\* while (--argc && *(argp = *++argv) == '-') { f = *++argp; ... }
\* with argc the count before the decrement, idx the C index argv points
\* at, argp and d (flags.is_decrypting) as they are on entry to the test.
ParseLoop(av, argc, idx, argp, d) ==
    IF argc - 1 = 0 THEN [argp |-> argp, d |-> d]
    ELSE LET a == av[idx + 2]
         IN  IF CharAt(a, 0) = CH_DASH
             THEN ParseLoop(av, argc - 1, idx + 1, StrInc(a),
                            d \/ (CharAt(a, 1) = CH_D))
             ELSE [argp |-> a, d |-> d]

\* The flag loop of main from its start: argp and flags.is_decrypting after it.
ParseFlags(av) == ParseLoop(av, Len(av), 0, <<>>, FALSE)

\* main's test of the key length.
KeyLengthOk(s) == strlen(s) = KEY_LEN

\* What stays as it is while a stream routine runs.
frame == <<argv, flags, kp, run, input0, hist, obp, msg>>

\* if (argc < 2 || argc > 3): usage on stdout, return 0.
MainUsage ==
    /\ pc = "main"
    /\ Len(argv) < 2 \/ Len(argv) > 3
    /\ msg' = "usage"
    /\ pc' = "exit"
    /\ UNCHANGED <<argv, stdin, stdout, flags, kp, buf, lbp, bp, obp, bytes, n, rfp,
                   ret, run, input0, iv, faults, runFaults, ioLog, oob, hist>>
    /\ UNCHANGED blockVars

\* The flag loop, then a key of the wrong length: report and return 0.
MainKeyLength ==
    /\ pc = "main"
    /\ Len(argv) >= 2 /\ Len(argv) <= 3
    /\ LET p == ParseFlags(argv)
       IN  /\ ~KeyLengthOk(p.argp)
           /\ flags' = p.d
           /\ kp' = p.argp
    /\ msg' = "keylen"
    /\ pc' = "exit"
    /\ UNCHANGED <<argv, stdin, stdout, buf, lbp, bp, obp, bytes, n, rfp,
                   ret, run, input0, iv, faults, runFaults, ioLog, oob, hist>>
    /\ UNCHANGED blockVars

\* The flag loop, the key accepted: enter decryptStream or encryptStream
\* (their locals as declared: n = 0, lbp = buf, bp = lbp + BLOCK_SIZE, ...).
MainStart ==
    /\ pc = "main"
    /\ Len(argv) >= 2 /\ Len(argv) <= 3
    /\ LET p == ParseFlags(argv)
       IN  /\ KeyLengthOk(p.argp)
           /\ flags' = p.d
           /\ kp' = p.argp
           /\ pc' = IF p.d THEN "d_ivread" ELSE "e_open"
           /\ buf' = FreshBuf(IF p.d THEN 3 ELSE 2)
           /\ obp' = IF p.d THEN 2 * BLOCK_SIZE ELSE 0
    /\ lbp' = 0
    /\ bp' = BLOCK_SIZE
    /\ n' = 0
    /\ UNCHANGED <<argv, stdin, stdout, bytes, rfp, ret, msg, run, input0, iv,
                   faults, runFaults, ioLog, oob, hist>>
    /\ UNCHANGED blockVars

\* ---------------------------------------------------- the I/O environment

Max(a, b) == IF a > b THEN a ELSE b

Min(a, b) == IF a < b THEN a ELSE b

\* Whether the environment may inject a fault now: only into a session's
\* first run, and at most MaxFaults times.
MayFault == run = 1 /\ faults < MaxFaults

\* What read(fd, ., BLOCK_SIZE) may return with avail bytes at hand: all of
\* them, or, as a fault, an error or fewer.
ReadOutcomes(avail) ==
    {avail} \cup
    (IF MayFault
     THEN {-1} \cup {c \in ShortCounts : c > 0 /\ c < avail}
     ELSE {})

\* What write(fd, ., cnt) may return: cnt, or, as a fault, an error or less.
WriteOutcomes(cnt) ==
    {cnt} \cup
    (IF MayFault
     THEN {-1} \cup {c \in ShortCounts : c < cnt}
     ELSE {})

\* Buffer b after read() stored the first c bytes of data at offset p.
ReadInto(b, p, data, c) ==
    [x \in DOMAIN b |-> IF x >= p /\ x < p + c THEN data[(x - p) + 1] ELSE b[x]]

\* The sequence that is left of data once its first c bytes are consumed.
Drop(data, c) == SubSeq(data, c + 1, Len(data))

\* A block as the sequence of its bytes.
BlockSeq(b) == [j \in 1..BLOCK_SIZE |-> b[j - 1]]

\* One entry of the run's system-call log.
Call(op, fd, req, res) == [op |-> op, fd |-> fd, req |-> req, res |-> res]

\* The bookkeeping of an injected fault.
NoteFault(isFault, kind) ==
    /\ faults' = IF isFault THEN faults + 1 ELSE faults
    /\ runFaults' = IF isFault THEN runFaults \cup {kind} ELSE runFaults

\* ------------------------------------------- the tests of the stream code

\* Only the error value tested: bytes == -1.
EntropyFailedErrorOnly(res) == res = -1

\* encryptStream: (bytes = read(rfp, lbp, BLOCK_SIZE)) != BLOCK_SIZE
EntropyFailed(res) == res # BLOCK_SIZE

\* Only the error value tested on the IV block: bytes == -1.
DecIvFailedErrorOnly(res) == res = -1

\* decryptStream: (bytes = read(STDIN, lbp, BLOCK_SIZE)) != BLOCK_SIZE
DecIvFailed(res) == res # BLOCK_SIZE

\* The loop kept going on any bytes at all: (bytes = read(...)) > 0
FullBlockAnyBytes(res) == res > 0

\* The loop test of both routines: (bytes = read(...)) == BLOCK_SIZE
FullBlock(res) == res = BLOCK_SIZE

\* encryptStream's loop: write(...) != BLOCK_SIZE
EncWriteFailed(res) == res # BLOCK_SIZE

\* decryptStream's loop: write(...) == -1
DecWriteFailed(res) == res = -1

\* The final block written whether or not bytes are left.
HasTailAlways(c) == TRUE

\* The final block of both routines: if (bytes)
HasTail(c) == c # 0

\* The final block of both routines: write(..., bytes) != bytes
TailWriteFailed(res, c) == res # c

\* n += BLOCK_SIZE also after the final block.
CountAfterWholeBlock(cnt, c) == cnt + BLOCK_SIZE

\* n += c (c is BLOCK_SIZE in the loops, bytes after the final block).
CountAfter(cnt, c) == cnt + c

\* --------------------------------------------------------- encryptStream

\* open(PATH_RANDOM, O_RDONLY, 0); on -1 the || short-circuits to return -1.
EncOpen ==
    /\ pc = "e_open"
    /\ \E ok \in (IF MayFault THEN {TRUE, FALSE} ELSE {TRUE}) :
        /\ rfp' = IF ok THEN 3 ELSE -1
        /\ pc' = IF ok THEN "e_ivread" ELSE "return"
        /\ ret' = IF ok THEN ret ELSE -1
        /\ NoteFault(~ok, "open")
        /\ ioLog' = Append(ioLog, Call("open", -1, 0, IF ok THEN 3 ELSE -1))
    /\ UNCHANGED <<stdin, stdout, buf, lbp, bp, bytes, n, iv, oob>>
    /\ UNCHANGED frame
    /\ UNCHANGED blockVars

\* (bytes = read(rfp, lbp, BLOCK_SIZE)) != BLOCK_SIZE: return -1.
EncReadIV ==
    /\ pc = "e_ivread"
    /\ \E v \in IVs :
       \E res \in {BLOCK_SIZE} \cup
                  (IF MayFault /\ v = IvA THEN {-1} \cup ShortCounts ELSE {}) :
        /\ buf' = ReadInto(buf, lbp, BlockSeq(v), Max(res, 0))
        /\ bytes' = res
        /\ iv' = IF res = BLOCK_SIZE THEN v ELSE iv
        /\ pc' = IF EntropyFailed(res) THEN "return" ELSE "e_ivwrite"
        /\ ret' = IF EntropyFailed(res) THEN -1 ELSE ret
        /\ NoteFault(res # BLOCK_SIZE, IF res = -1 THEN "ivread_err" ELSE "ivread_short")
        /\ ioLog' = Append(ioLog, Call("read", rfp, BLOCK_SIZE, res))
    /\ UNCHANGED <<stdin, stdout, lbp, bp, n, rfp, oob>>
    /\ UNCHANGED frame
    /\ UNCHANGED blockVars

\* write(STDOUT, encryptBlock(lbp, kp), BLOCK_SIZE); its result is dropped.
EncWriteIV ==
    /\ pc = "e_ivwrite"
    /\ LET nb == StoreBlock(buf, lbp, encryptBlock(BlockAt(buf, lbp), kp))
       IN  \E res \in WriteOutcomes(BLOCK_SIZE) :
            /\ buf' = nb
            /\ stdout' = stdout \o BytesAt(nb, lbp, Max(res, 0))
            /\ NoteFault(res # BLOCK_SIZE,
                         IF res = -1 THEN "write_err" ELSE "write_short")
            /\ ioLog' = Append(ioLog, Call("write", STDOUT, BLOCK_SIZE, res))
    /\ pc' = "e_read"
    /\ UNCHANGED <<stdin, lbp, bp, bytes, n, rfp, ret, iv, oob>>
    /\ UNCHANGED frame
    /\ UNCHANGED blockVars

\* while ((bytes = read(STDIN, bp, BLOCK_SIZE)) == BLOCK_SIZE); when the loop
\* ends, if (bytes) leads to the final block and otherwise to return n.
EncRead ==
    /\ pc = "e_read"
    /\ \E res \in ReadOutcomes(Min(BLOCK_SIZE, Len(stdin))) :
        /\ buf' = ReadInto(buf, bp, stdin, Max(res, 0))
        /\ stdin' = Drop(stdin, Max(res, 0))
        /\ bytes' = res
        /\ pc' = IF FullBlock(res) THEN "e_xform"
                 ELSE IF HasTail(res) THEN "e_tail" ELSE "return"
        /\ ret' = IF ~FullBlock(res) /\ ~HasTail(res) THEN n ELSE ret
        /\ NoteFault(res # Min(BLOCK_SIZE, Len(stdin)),
                     IF res = -1 THEN "read_err" ELSE "read_short")
        /\ ioLog' = Append(ioLog, Call("read", STDIN, BLOCK_SIZE, res))
    /\ UNCHANGED <<stdout, lbp, bp, n, rfp, iv, oob>>
    /\ UNCHANGED frame
    /\ UNCHANGED blockVars

\* for (i = 0; i < BLOCK_SIZE; bp[i] ^= lbp[i], i++); then encryptBlock(bp, kp),
\* the argument of the write.
EncXform ==
    /\ pc = "e_xform"
    /\ buf' = StoreBlock(buf, bp,
                encryptBlock(XorPrefix(BlockAt(buf, bp), BlockAt(buf, lbp), BLOCK_SIZE),
                             kp))
    /\ pc' = "e_write"
    /\ UNCHANGED <<stdin, stdout, lbp, bp, bytes, n, rfp, ret, iv, faults, runFaults,
                   ioLog, oob>>
    /\ UNCHANGED frame
    /\ UNCHANGED blockVars

\* if (write(STDOUT, ., BLOCK_SIZE) != BLOCK_SIZE) return -1; then the
\* rotation t = lbp; lbp = bp; bp = t; n += BLOCK_SIZE.
EncWrite ==
    /\ pc = "e_write"
    /\ \E res \in WriteOutcomes(BLOCK_SIZE) :
        /\ stdout' = stdout \o BytesAt(buf, bp, Max(res, 0))
        /\ NoteFault(res # BLOCK_SIZE,
                     IF res = -1 THEN "write_err" ELSE "write_short")
        /\ ioLog' = Append(ioLog, Call("write", STDOUT, BLOCK_SIZE, res))
        /\ IF EncWriteFailed(res)
           THEN /\ ret' = -1
                /\ pc' = "return"
                /\ UNCHANGED <<lbp, bp, n>>
           ELSE /\ lbp' = bp
                /\ bp' = lbp
                /\ n' = CountAfter(n, BLOCK_SIZE)
                /\ pc' = "e_read"
                /\ UNCHANGED ret
    /\ UNCHANGED <<stdin, buf, bytes, rfp, iv, oob>>
    /\ UNCHANGED frame
    /\ UNCHANGED blockVars

\* Buffer b after memset(p + c, 0, BLOCK_SIZE - c), as far as it falls in b.
TailPad(b, p, c) ==
    [x \in DOMAIN b |-> IF x >= p + c /\ x < p + BLOCK_SIZE THEN 0 ELSE b[x]]

\* Whether the bytes lo..hi-1 all lie in buffer b.
InBuf(b, lo, hi) == lo >= 0 /\ hi <= Cardinality(DOMAIN b)

\* Buffer b after the final block's XOR loop (i < c) and memset.
TailPrepared(b, p, l, c) ==
    TailPad(StoreBlock(b, p, XorPrefix(BlockAt(b, p), BlockAt(b, l), c)), p, c)

\* What a store outside buf may do: nothing the run sees, end the process,
\* or clear the low byte of n.
StrayOutcomes == {"unseen", "crash", "n"}

\* The final block XORed and padded but written without encryptBlock.
EncTailUntransformed ==
    /\ pc = "e_tail"
    /\ LET b2 == TailPrepared(buf, bp, lbp, bytes)
           b3 == b2
       IN  \/ /\ InBuf(buf, bp + bytes, bp + BLOCK_SIZE)
              /\ buf' = b3
              /\ pc' = "e_tailwrite"
              /\ UNCHANGED <<n, oob>>
           \/ /\ ~InBuf(buf, bp + bytes, bp + BLOCK_SIZE)
              /\ oob' = TRUE
              /\ \E o \in StrayOutcomes :
                   /\ buf' = b3
                   /\ pc' = IF o = "crash" THEN "crashed" ELSE "e_tailwrite"
                   /\ n' = IF o = "n" THEN n - (n % 256) ELSE n
    /\ UNCHANGED <<stdin, stdout, lbp, bp, bytes, rfp, ret, iv, faults, runFaults,
                   ioLog>>
    /\ UNCHANGED frame
    /\ UNCHANGED blockVars

\* if (bytes) { XOR loop; memset(bp + bytes, 0, BLOCK_SIZE - bytes); and
\* encryptBlock(bp, kp), the argument of the write.  bytes is 1..7, or -1
\* after a failed read: then the loop does nothing and memset clears the 9
\* bytes from bp - 1, one of them outside buf when bp = buf.
EncTail ==
    /\ pc = "e_tail"
    /\ LET b2 == TailPrepared(buf, bp, lbp, bytes)
           b3 == StoreBlock(b2, bp, encryptBlock(BlockAt(b2, bp), kp))
       IN  \/ /\ InBuf(buf, bp + bytes, bp + BLOCK_SIZE)
              /\ buf' = b3
              /\ pc' = "e_tailwrite"
              /\ UNCHANGED <<n, oob>>
           \/ /\ ~InBuf(buf, bp + bytes, bp + BLOCK_SIZE)
              /\ oob' = TRUE
              /\ \E o \in StrayOutcomes :
                   /\ buf' = b3
                   /\ pc' = IF o = "crash" THEN "crashed" ELSE "e_tailwrite"
                   /\ n' = IF o = "n" THEN n - (n % 256) ELSE n
    /\ UNCHANGED <<stdin, stdout, lbp, bp, bytes, rfp, ret, iv, faults, runFaults,
                   ioLog>>
    /\ UNCHANGED frame
    /\ UNCHANGED blockVars

\* if (write(STDOUT, ., bytes) != bytes) return -1; n += bytes; return n.
\* With bytes = -1 the count is (size_t)-1: the call fails with -1 (Linux:
\* EFAULT), which equals bytes, or sends what lies from bp onwards, past buf.
EncTailWrite ==
    /\ pc = "e_tailwrite"
    /\ \/ /\ bytes >= 0
          /\ \E res \in WriteOutcomes(bytes) :
               /\ stdout' = stdout \o BytesAt(buf, bp, Max(res, 0))
               /\ NoteFault(res # bytes,
                            IF res = -1 THEN "write_err" ELSE "write_short")
               /\ ioLog' = Append(ioLog, Call("write", STDOUT, bytes, res))
               /\ ret' = IF TailWriteFailed(res, bytes) THEN -1 ELSE CountAfter(n, bytes)
               /\ n' = IF TailWriteFailed(res, bytes) THEN n ELSE CountAfter(n, bytes)
          /\ UNCHANGED oob
       \/ /\ bytes < 0
          /\ \E past \in BOOLEAN :
               LET inbuf == Cardinality(DOMAIN buf) - bp
                   res == IF past THEN inbuf + 1 ELSE -1
               IN  /\ stdout' = IF past
                                THEN (stdout \o BytesAt(buf, bp, inbuf)) \o <<UNINIT>>
                                ELSE stdout
                   /\ oob' = (oob \/ past)
                   /\ ioLog' = Append(ioLog, Call("write", STDOUT, bytes, res))
                   /\ ret' = IF TailWriteFailed(res, bytes) THEN -1
                             ELSE CountAfter(n, bytes)
                   /\ n' = IF TailWriteFailed(res, bytes) THEN n
                           ELSE CountAfter(n, bytes)
          /\ UNCHANGED <<faults, runFaults>>
    /\ pc' = "return"
    /\ UNCHANGED <<stdin, buf, lbp, bp, bytes, rfp, iv>>
    /\ UNCHANGED frame
    /\ UNCHANGED blockVars

\* --------------------------------------------------------- decryptStream

\* if ((bytes = read(STDIN, lbp, BLOCK_SIZE)) != BLOCK_SIZE) return -1;
DecReadIV ==
    /\ pc = "d_ivread"
    /\ \E res \in ReadOutcomes(Min(BLOCK_SIZE, Len(stdin))) :
        /\ buf' = ReadInto(buf, lbp, stdin, Max(res, 0))
        /\ stdin' = Drop(stdin, Max(res, 0))
        /\ bytes' = res
        /\ pc' = IF DecIvFailed(res) THEN "return" ELSE "d_read"
        /\ ret' = IF DecIvFailed(res) THEN -1 ELSE ret
        /\ NoteFault(res # Min(BLOCK_SIZE, Len(stdin)),
                     IF res = -1 THEN "read_err" ELSE "read_short")
        /\ ioLog' = Append(ioLog, Call("read", STDIN, BLOCK_SIZE, res))
    /\ UNCHANGED <<stdout, lbp, bp, n, rfp, iv, oob>>
    /\ UNCHANGED frame
    /\ UNCHANGED blockVars

\* while ((bytes = read(STDIN, bp, BLOCK_SIZE)) == BLOCK_SIZE); when the loop
\* ends, if (bytes) leads to the last block and otherwise to return n.
DecRead ==
    /\ pc = "d_read"
    /\ \E res \in ReadOutcomes(Min(BLOCK_SIZE, Len(stdin))) :
        /\ buf' = ReadInto(buf, bp, stdin, Max(res, 0))
        /\ stdin' = Drop(stdin, Max(res, 0))
        /\ bytes' = res
        /\ pc' = IF FullBlock(res) THEN "d_xform"
                 ELSE IF HasTail(res) THEN "d_tail" ELSE "return"
        /\ ret' = IF ~FullBlock(res) /\ ~HasTail(res) THEN n ELSE ret
        /\ NoteFault(res # Min(BLOCK_SIZE, Len(stdin)),
                     IF res = -1 THEN "read_err" ELSE "read_short")
        /\ ioLog' = Append(ioLog, Call("read", STDIN, BLOCK_SIZE, res))
    /\ UNCHANGED <<stdout, lbp, bp, n, rfp, iv, oob>>
    /\ UNCHANGED frame
    /\ UNCHANGED blockVars

\* memcpy(obp, bp, BLOCK_SIZE); for (...; obp[i] ^= lbp[i], ...); then
\* decryptBlock(obp, kp), the argument of the write.
DecXform ==
    /\ pc = "d_xform"
    /\ buf' = StoreBlock(buf, obp,
                decryptBlock(XorPrefix(BlockAt(buf, bp), BlockAt(buf, lbp), BLOCK_SIZE),
                             kp))
    /\ pc' = "d_write"
    /\ UNCHANGED <<stdin, stdout, lbp, bp, bytes, n, rfp, ret, iv, faults, runFaults,
                   ioLog, oob>>
    /\ UNCHANGED frame
    /\ UNCHANGED blockVars

\* if (write(STDOUT, ., BLOCK_SIZE) == -1) return -1; then the rotation
\* t = lbp; lbp = bp; bp = t; n += BLOCK_SIZE.
DecWrite ==
    /\ pc = "d_write"
    /\ \E res \in WriteOutcomes(BLOCK_SIZE) :
        /\ stdout' = stdout \o BytesAt(buf, obp, Max(res, 0))
        /\ NoteFault(res # BLOCK_SIZE,
                     IF res = -1 THEN "write_err" ELSE "write_short")
        /\ ioLog' = Append(ioLog, Call("write", STDOUT, BLOCK_SIZE, res))
        /\ IF DecWriteFailed(res)
           THEN /\ ret' = -1
                /\ pc' = "return"
                /\ UNCHANGED <<lbp, bp, n>>
           ELSE /\ lbp' = bp
                /\ bp' = lbp
                /\ n' = CountAfter(n, BLOCK_SIZE)
                /\ pc' = "d_read"
                /\ UNCHANGED ret
    /\ UNCHANGED <<stdin, buf, bytes, rfp, iv, oob>>
    /\ UNCHANGED frame
    /\ UNCHANGED blockVars

\* The last block XORed and padded but written without decryptBlock.
DecTailXorOnly ==
    /\ pc = "d_tail"
    /\ LET b2 == TailPrepared(buf, bp, lbp, bytes)
           b3 == b2
       IN  \/ /\ InBuf(buf, bp + bytes, bp + BLOCK_SIZE)
              /\ buf' = b3
              /\ pc' = "d_tailwrite"
              /\ UNCHANGED <<n, oob>>
           \/ /\ ~InBuf(buf, bp + bytes, bp + BLOCK_SIZE)
              /\ oob' = TRUE
              /\ \E o \in StrayOutcomes :
                   /\ buf' = b3
                   /\ pc' = IF o = "crash" THEN "crashed" ELSE "d_tailwrite"
                   /\ n' = IF o = "n" THEN n - (n % 256) ELSE n
    /\ UNCHANGED <<stdin, stdout, lbp, bp, bytes, rfp, ret, iv, faults, runFaults,
                   ioLog>>
    /\ UNCHANGED frame
    /\ UNCHANGED blockVars

\* if (bytes) { XOR loop; memset(bp + bytes, 0, BLOCK_SIZE - bytes); and
\* decryptBlock(bp, kp), the argument of the write (bytes as in EncTail).
DecTail ==
    /\ pc = "d_tail"
    /\ LET b2 == TailPrepared(buf, bp, lbp, bytes)
           b3 == StoreBlock(b2, bp, decryptBlock(BlockAt(b2, bp), kp))
       IN  \/ /\ InBuf(buf, bp + bytes, bp + BLOCK_SIZE)
              /\ buf' = b3
              /\ pc' = "d_tailwrite"
              /\ UNCHANGED <<n, oob>>
           \/ /\ ~InBuf(buf, bp + bytes, bp + BLOCK_SIZE)
              /\ oob' = TRUE
              /\ \E o \in StrayOutcomes :
                   /\ buf' = b3
                   /\ pc' = IF o = "crash" THEN "crashed" ELSE "d_tailwrite"
                   /\ n' = IF o = "n" THEN n - (n % 256) ELSE n
    /\ UNCHANGED <<stdin, stdout, lbp, bp, bytes, rfp, ret, iv, faults, runFaults,
                   ioLog>>
    /\ UNCHANGED frame
    /\ UNCHANGED blockVars

\* if (write(STDOUT, ., bytes) != bytes) return -1; n += bytes; return n.
DecTailWrite ==
    /\ pc = "d_tailwrite"
    /\ \/ /\ bytes >= 0
          /\ \E res \in WriteOutcomes(bytes) :
               /\ stdout' = stdout \o BytesAt(buf, bp, Max(res, 0))
               /\ NoteFault(res # bytes,
                            IF res = -1 THEN "write_err" ELSE "write_short")
               /\ ioLog' = Append(ioLog, Call("write", STDOUT, bytes, res))
               /\ ret' = IF TailWriteFailed(res, bytes) THEN -1 ELSE CountAfter(n, bytes)
               /\ n' = IF TailWriteFailed(res, bytes) THEN n ELSE CountAfter(n, bytes)
          /\ UNCHANGED oob
       \/ /\ bytes < 0
          /\ \E past \in BOOLEAN :
               LET inbuf == Cardinality(DOMAIN buf) - bp
                   res == IF past THEN inbuf + 1 ELSE -1
               IN  /\ stdout' = IF past
                                THEN (stdout \o BytesAt(buf, bp, inbuf)) \o <<UNINIT>>
                                ELSE stdout
                   /\ oob' = (oob \/ past)
                   /\ ioLog' = Append(ioLog, Call("write", STDOUT, bytes, res))
                   /\ ret' = IF TailWriteFailed(res, bytes) THEN -1
                             ELSE CountAfter(n, bytes)
                   /\ n' = IF TailWriteFailed(res, bytes) THEN n
                           ELSE CountAfter(n, bytes)
          /\ UNCHANGED <<faults, runFaults>>
    /\ pc' = "return"
    /\ UNCHANGED <<stdin, buf, lbp, bp, bytes, rfp, iv>>
    /\ UNCHANGED frame
    /\ UNCHANGED blockVars

\* ------------------------------------------------------- back in main

\* The record of a finished run.
RunRecord ==
    [dec |-> flags, key |-> kp, iv |-> iv, input |-> input0, output |-> stdout,
     ret |-> ret, faults |-> runFaults, oob |-> oob]

\* if (... (n = xStream(kp)) == -1 ...) "Procedure failure" else "%ld bytes
\* processed."; return 0.
MainReport ==
    /\ pc = "return"
    /\ msg' = IF ret = -1 THEN "failure" ELSE "count"
    /\ pc' = "exit"
    /\ hist' = Append(hist, RunRecord)
    /\ UNCHANGED <<argv, stdin, stdout, flags, kp, buf, lbp, bp, obp, bytes, n, rfp,
                   ret, run, input0, iv, faults, runFaults, ioLog, oob>>
    /\ UNCHANGED blockVars

\* ---------------------------------------------------------- the session

\* A new process: its globals zeroed, its locals not yet declared.
NewProcess ==
    /\ stdout' = <<>>
    /\ pc' = "main"
    /\ flags' = FALSE
    /\ kp' = <<>>
    /\ buf' = FreshBuf(2)
    /\ lbp' = 0
    /\ bp' = 0
    /\ obp' = 0
    /\ bytes' = 0
    /\ n' = 0
    /\ rfp' = 0
    /\ ret' = 0
    /\ msg' = "none"
    /\ run' = run + 1
    /\ iv' = ConstBlock(UNINIT)
    /\ runFaults' = {}
    /\ ioLog' = <<>>
    /\ oob' = FALSE
    /\ UNCHANGED <<faults, hist>>
    /\ UNCHANGED blockVars

\* After a session's first run, an encryption that reported a byte count,
\* the same command is run once more on the same input.
Again ==
    /\ pc = "exit"
    /\ msg = "count"
    /\ ~flags
    /\ run = 1
    /\ argv' = argv
    /\ stdin' = input0
    /\ input0' = input0
    /\ NewProcess

\* Whether the h-th finished run is an encryption that reported a byte count
\* and whose output no later run of the session has been given.
Undecrypted(h) ==
    /\ ~hist[h].dec
    /\ hist[h].ret # -1
    /\ \A d \in 1..Len(hist) :
         ~(hist[d].dec /\ hist[d].input = hist[h].output /\ hist[d].key = hist[h].key)

\* The output of an earlier encryption of the session is decrypted with the
\* key that run was given: cbc -d <key>.
Pipe ==
    /\ pc = "exit"
    /\ \E h \in 1..Len(hist) :
        /\ Undecrypted(h)
        /\ argv' = <<ProgName, FlagD, hist[h].key>>
        /\ stdin' = hist[h].output
        /\ input0' = hist[h].output
    /\ NewProcess

Next ==
    \/ MainUsage
    \/ MainKeyLength
    \/ MainStart
    \/ EncOpen
    \/ EncReadIV
    \/ EncWriteIV
    \/ EncRead
    \/ EncXform
    \/ EncWrite
    \/ EncTail
    \/ EncTailWrite
    \/ DecReadIV
    \/ DecRead
    \/ DecXform
    \/ DecWrite
    \/ DecTail
    \/ DecTailWrite
    \/ MainReport
    \/ Again
    \/ Pipe

Spec == Init /\ [][Next]_vars

\* ------------------------------------------------- the block-level model
\* encryptBlock and decryptBlock called directly on a block and a key, one
\* round of the while loop per step.

\* The block [0, 1, ..., 7] and the key [0, 1, ..., 63].
SeqBlock == [m \in 0..(BLOCK_SIZE - 1) |-> m]

SeqKey == [i \in 1..KEY_LEN |-> i - 1]

BlockInputs == {SeqBlock, IvA, IvB, ConstBlock(0), ConstBlock(255)}

BlockKeys == {SeqKey, KeyA, [i \in 1..KEY_LEN |-> (((i * i) * 7) + 13) % 256]}

\* The stream variables while the block-level model runs.
StreamIdle ==
    /\ argv = <<ProgName>>
    /\ stdin = <<>>
    /\ input0 = <<>>
    /\ stdout = <<>>
    /\ pc = "idle"
    /\ flags = FALSE
    /\ kp = <<>>
    /\ buf = FreshBuf(2)
    /\ lbp = 0
    /\ bp = 0
    /\ obp = 0
    /\ bytes = 0
    /\ n = 0
    /\ rfp = 0
    /\ ret = 0
    /\ msg = "none"
    /\ run = 1
    /\ iv = ConstBlock(UNINIT)
    /\ faults = 0
    /\ runFaults = {}
    /\ ioLog = <<>>
    /\ oob = FALSE
    /\ hist = <<>>

BlockInit ==
    /\ StreamIdle
    /\ blk \in BlockInputs
    /\ bkey \in BlockKeys
    /\ bvals = <<blk>>
    /\ bmode = "ready"
    /\ brounds = 0
    /\ bcur = 0
    /\ bops = <<>>
    /\ bkeyReads = <<>>

\* The key indices one round dereferences, in order: cur, cur + 1, ...
RoundReads(cur) == [i \in 1..(BLOCK_SIZE \div 2) |-> (cur + i) - 1]

\* The locals of the running transform.
BlockLocals == [b |-> blk, cur |-> bcur, r |-> brounds]

\* encryptBlock(bp, kp) is entered.
BlockEncEnter ==
    /\ bmode = "ready"
    /\ Len(bops) < MaxOps
    /\ bmode' = "enc"
    /\ brounds' = EncEntry(blk).r
    /\ bcur' = EncEntry(blk).cur
    /\ bkeyReads' = <<>>
    /\ UNCHANGED <<blk, bkey, bvals, bops>>
    /\ UNCHANGED streamVars

\* One pass of encryptBlock's while (r--) body.
BlockEncRound ==
    /\ bmode = "enc"
    /\ brounds # 0
    /\ LET st == EncRound(BlockLocals, bkey)
       IN  /\ blk' = st.b
           /\ bcur' = st.cur
           /\ brounds' = st.r
    /\ bkeyReads' = bkeyReads \o RoundReads(bcur)
    /\ UNCHANGED <<bkey, bvals, bmode, bops>>
    /\ UNCHANGED streamVars

\* encryptBlock returns bp.
BlockEncReturn ==
    /\ bmode = "enc"
    /\ brounds = 0
    /\ bmode' = "ready"
    /\ bops' = Append(bops, "enc")
    /\ bvals' = Append(bvals, blk)
    /\ UNCHANGED <<blk, bkey, brounds, bcur, bkeyReads>>
    /\ UNCHANGED streamVars

\* decryptBlock(bp, kp) is entered.
BlockDecEnter ==
    /\ bmode = "ready"
    /\ Len(bops) < MaxOps
    /\ bmode' = "dec"
    /\ brounds' = DecEntry(blk).r
    /\ bcur' = DecEntry(blk).cur
    /\ bkeyReads' = <<>>
    /\ UNCHANGED <<blk, bkey, bvals, bops>>
    /\ UNCHANGED streamVars

\* One pass of decryptBlock's while (r--) body.
BlockDecRound ==
    /\ bmode = "dec"
    /\ brounds # 0
    /\ LET st == DecRound(BlockLocals, bkey)
       IN  /\ blk' = st.b
           /\ bcur' = st.cur
           /\ brounds' = st.r
    /\ bkeyReads' = bkeyReads \o RoundReads(bcur)
    /\ UNCHANGED <<bkey, bvals, bmode, bops>>
    /\ UNCHANGED streamVars

\* decryptBlock returns bp.
BlockDecReturn ==
    /\ bmode = "dec"
    /\ brounds = 0
    /\ bmode' = "ready"
    /\ bops' = Append(bops, "dec")
    /\ bvals' = Append(bvals, blk)
    /\ UNCHANGED <<blk, bkey, brounds, bcur, bkeyReads>>
    /\ UNCHANGED streamVars

BlockNext ==
    \/ BlockEncEnter
    \/ BlockEncRound
    \/ BlockEncReturn
    \/ BlockDecEnter
    \/ BlockDecRound
    \/ BlockDecReturn

BlockSpec == BlockInit /\ [][BlockNext]_vars

\* ---------------------------------------------------------------- properties

\* The stream routine of the current run has returned to main.
StreamRan ==
    pc = "return" \/ (pc = "exit" /\ msg \in {"failure", "count"})

\* No fault was injected in the current run: every read was short only at
\* the end of the stream, every write complete, the entropy source sound.
CleanRun == runFaults = {}

IsStdoutWrite(e) == e.op = "write" /\ e.fd = STDOUT

IsStdinRead(e) == e.op = "read" /\ e.fd = STDIN

\* The i-th finished run is a fault-free encryption.
CleanEnc(i) == ~hist[i].dec /\ hist[i].faults = {}

\* The d-th finished run is a fault-free decryption, with the same key, of the
\* output of the i-th.
CleanDecOf(d, i) ==
    /\ hist[d].dec
    /\ hist[d].faults = {}
    /\ hist[d].key = hist[i].key
    /\ hist[d].input = hist[i].output

\* C1: when every read returns full blocks until the end of the stream and
\* every write completes, decryptStream with key K on the exact output of
\* encryptStream(P, K) emits exactly P, for every P (full blocks and an
\* optional tail), key and IV.
StreamRoundTrip ==
    \A i, d \in 1..Len(hist) :
        (CleanEnc(i) /\ CleanDecOf(d, i)) => hist[d].output = hist[i].input

\* C1's case: a plaintext of two full blocks and a tail came back.
StreamRoundTripWitness ==
    \E i, d \in 1..Len(hist) :
        /\ CleanEnc(i)
        /\ CleanDecOf(d, i)
        /\ Len(hist[i].input) > 2 * BLOCK_SIZE
        /\ Len(hist[i].input) % BLOCK_SIZE # 0
        /\ hist[d].output = hist[i].input
        /\ hist[i].output # hist[i].input

\* C2: decryptBlock(encryptBlock(B, K), K) = B and
\* encryptBlock(decryptBlock(B, K), K) = B for every block B and key K, among
\* them B = [0..7] with K = [0..63].
BlockRoundTrip ==
    \A j \in 1..(Len(bops) - 1) :
        (bops[j] # bops[j + 1]) => bvals[j + 2] = bvals[j]

\* C2's case: a block was changed by encryptBlock and restored by
\* decryptBlock.
BlockRoundTripWitness ==
    /\ bmode = "ready"
    /\ bops = <<"enc", "dec">>
    /\ bvals[2] # bvals[1]
    /\ bvals[3] = bvals[1]

\* C3: on a fault-free run encryptStream writes len(P) + 8 bytes: the 8-byte
\* encrypted IV, floor(len(P)/8) blocks of 8 bytes, and a last segment of
\* len(P) mod 8 bytes, absent when that is 0.
LengthFraming ==
    (StreamRan /\ ~flags /\ CleanRun) =>
        LET w == SelectSeq(ioLog, IsStdoutWrite)
            full == Len(input0) \div BLOCK_SIZE
            rem == Len(input0) % BLOCK_SIZE
        IN  /\ Len(stdout) = Len(input0) + BLOCK_SIZE
            /\ Len(stdout) = (BLOCK_SIZE + (BLOCK_SIZE * full)) + rem
            /\ Len(w) = (1 + full) + (IF rem = 0 THEN 0 ELSE 1)
            /\ \A j \in 1..Len(w) :
                 /\ w[j].req = (IF j <= 1 + full THEN BLOCK_SIZE ELSE rem)
                 /\ w[j].res = w[j].req

\* C3's case: an encryption of two full blocks and a one-byte tail returned.
LengthFramingWitness ==
    /\ StreamRan
    /\ ~flags
    /\ CleanRun
    /\ Len(input0) = (2 * BLOCK_SIZE) + 1
    /\ Len(stdout) = (3 * BLOCK_SIZE) + 1

\* The key the caller supplies on a command line <program> [-d] <key>.
SuppliedKey(av) == av[Len(av)]

\* A command line of the form <program> <key> or <program> -d <key>.
UsageForm(av) == Len(av) = 2 \/ (Len(av) = 3 /\ av[2] = FlagD)

\* C4: with 2 or 3 arguments, a supplied key whose length is not 64
\* (whatever its content, a leading '-' included) makes main report the
\* error and return without any read or write; a stream operation starts
\* only with a key of exactly 64 bytes as supplied.
KeyLengthRejection ==
    (run = 1 /\ UsageForm(argv)) =>
        /\ (Len(SuppliedKey(argv)) # KEY_LEN) =>
              /\ pc \in {"main", "exit"}
              /\ pc = "exit" => msg = "keylen"
              /\ ioLog = <<>>
              /\ stdout = <<>>
              /\ stdin = input0
        /\ (pc \notin {"main", "exit"} \/ StreamRan) =>
              /\ Len(SuppliedKey(argv)) = KEY_LEN
              /\ kp = SuppliedKey(argv)

\* C5: in encryptStream and decryptStream, a write that returns a count
\* other than the one requested is the routine's last system call, and the
\* routine returns -1.
ShortWriteFatal ==
    \A j \in 1..Len(ioLog) :
        (IsStdoutWrite(ioLog[j]) /\ ioLog[j].res # ioLog[j].req) =>
            /\ j = Len(ioLog)
            /\ pc \in {"return", "exit"}
            /\ ret = -1

\* C6: when a read of standard input returned -1, the routine returns -1
\* (main prints the failure message), never a count >= 0.  Stated for the
\* runs that made no access outside buf.
ReadFailureSignalled ==
    (/\ StreamRan
     /\ ~oob
     /\ \E j \in 1..Len(ioLog) : IsStdinRead(ioLog[j]) /\ ioLog[j].res = -1)
    => /\ ret = -1
       /\ pc = "exit" => msg = "failure"

\* The entropy source failed: open returned -1, or its read returned
\* anything but BLOCK_SIZE.
EntropyFault(e) ==
    \/ e.op = "open" /\ e.res = -1
    \/ e.op = "read" /\ e.fd # STDIN /\ e.res # BLOCK_SIZE

\* C7: if the entropy source cannot be opened or its read returns anything
\* but exactly 8 bytes, encryptStream returns -1 having written nothing to
\* standard output and read nothing from standard input.
EntropyFailureAborts ==
    (\E j \in 1..Len(ioLog) : EntropyFault(ioLog[j])) =>
        /\ pc \in {"return", "exit"}
        /\ ret = -1
        /\ pc = "exit" => msg = "failure"
        /\ stdout = <<>>
        /\ stdin = input0
        /\ \A j \in 1..Len(ioLog) : ~IsStdoutWrite(ioLog[j]) /\ ~IsStdinRead(ioLog[j])

\* C7's case: the entropy read returned 5 bytes and main reported.
EntropyFailureAbortsWitness ==
    /\ pc = "exit"
    /\ \E j \in 1..Len(ioLog) :
         ioLog[j].op = "read" /\ ioLog[j].fd # STDIN /\ ioLog[j].res = 5
    /\ Len(input0) > 0

\* C8: on a fault-free run encryptStream returns len(P) and decryptStream,
\* given a ciphertext stream (8 bytes of IV or more), its length minus 8, the
\* number of bytes it emitted; inside the loop n is the number of payload
\* bytes emitted so far; and such a run never returns -1.
ByteCountReturned ==
    /\ (StreamRan /\ CleanRun /\ ~flags) =>
          ret = Len(input0) /\ ret # -1
    /\ (StreamRan /\ CleanRun /\ flags /\ Len(input0) >= BLOCK_SIZE) =>
          ret = Len(input0) - BLOCK_SIZE /\ ret = Len(stdout) /\ ret # -1
    /\ (CleanRun /\ pc \in {"e_read", "e_xform", "e_write", "e_tail", "e_tailwrite"}) =>
          n = Len(stdout) - BLOCK_SIZE
    /\ (CleanRun /\ pc \in {"d_read", "d_xform", "d_write", "d_tail", "d_tailwrite"}) =>
          n = Len(stdout)

\* C8's case: a decryption of an IV, two full blocks and a tail returned 17.
ByteCountReturnedWitness ==
    /\ StreamRan
    /\ CleanRun
    /\ flags
    /\ Len(input0) = (3 * BLOCK_SIZE) + 1
    /\ ret = (2 * BLOCK_SIZE) + 1

\* The first block of an output stream.
FirstBlock(out) == SubSeq(out, 1, BLOCK_SIZE)

\* C9: two fault-free encryptions of the same P with the same K whose IVs
\* differ give streams that differ already in the first 8-byte block, with
\* the same IV they give the same stream, and both streams decrypt with K
\* to P.
IvDependence ==
    \A i, j \in 1..Len(hist) :
        (/\ i < j
         /\ CleanEnc(i)
         /\ CleanEnc(j)
         /\ hist[i].input = hist[j].input
         /\ hist[i].key = hist[j].key)
        => /\ (hist[i].iv # hist[j].iv) =>
                 FirstBlock(hist[i].output) # FirstBlock(hist[j].output)
           /\ (hist[i].iv = hist[j].iv) => hist[i].output = hist[j].output
           /\ \A d \in 1..Len(hist) :
                 (CleanDecOf(d, i) \/ CleanDecOf(d, j)) =>
                     hist[d].output = hist[i].input

\* C9's case: two encryptions with different IVs, both outputs decrypted.
IvDependenceWitness ==
    /\ Len(hist) = 4
    /\ CleanEnc(1)
    /\ CleanEnc(2)
    /\ hist[1].iv # hist[2].iv
    /\ Len(hist[1].input) = MaxLen
    /\ \E d, e \in 3..4 : d # e /\ CleanDecOf(d, 1) /\ CleanDecOf(e, 2)

\* The h-th finished run is a fault-free encryption of the empty input.
EmptyEnc(h) == CleanEnc(h) /\ hist[h].input = <<>>

\* C10: encryptStream on an empty input writes exactly one 8-byte block,
\* encryptBlock(IV, K), and returns 0; decryptStream on that output writes
\* nothing and returns 0, a success.
EmptyInput ==
    /\ (StreamRan /\ ~flags /\ CleanRun /\ input0 = <<>>) =>
          /\ stdout = BlockSeq(encryptBlock(iv, kp))
          /\ Len(SelectSeq(ioLog, IsStdoutWrite)) = 1
          /\ ret = 0
          /\ pc = "exit" => msg = "count"
    /\ (/\ StreamRan
        /\ flags
        /\ CleanRun
        /\ \E h \in 1..Len(hist) :
             EmptyEnc(h) /\ hist[h].output = input0 /\ hist[h].key = kp)
       => /\ stdout = <<>>
          /\ Len(SelectSeq(ioLog, IsStdoutWrite)) = 0
          /\ ret = 0
          /\ pc = "exit" => msg = "count"

\* C10's case: the 8-byte output of an encryption of nothing was decrypted.
EmptyInputWitness ==
    /\ pc = "exit"
    /\ flags
    /\ CleanRun
    /\ Len(input0) = BLOCK_SIZE
    /\ msg = "count"
    /\ \E h \in 1..Len(hist) :
         EmptyEnc(h) /\ hist[h].output = input0 /\ hist[h].key = kp

\* Byte-wise XOR of two blocks.
XorBlocks(x, y) == [m \in 0..(BLOCK_SIZE - 1) |-> Xor(x[m], y[m])]

\* The j-th 8-byte chunk of a stream (chunk 0 is its first 8 bytes).
ChunkOf(s, j) == [m \in 0..(BLOCK_SIZE - 1) |-> s[((j * BLOCK_SIZE) + m) + 1]]

\* The number of full chunks of a stream.
FullChunks(s) == Len(s) \div BLOCK_SIZE

\* C11: for every full 8-byte chunk C that decryptStream read after the IV,
\* with Cprev the previous chunk as it was read and K the key, the 8 bytes
\* handed to the write are decryptBlock(C, K) XOR Cprev byte by byte, C and
\* Cprev are left as read, and once a fault-free decryption has returned,
\* the j-th block of its output is decryptBlock(chunk j of the input, K)
\* XOR chunk j - 1 of the input.
DecryptFullBlockOrder ==
    /\ pc = "d_write" =>
         BlockAt(buf, obp) =
           XorBlocks(decryptBlock(BlockAt(buf, bp), kp), BlockAt(buf, lbp))
    /\ (pc = "return" /\ flags /\ CleanRun /\ ret # -1) =>
         \A j \in 1..(FullChunks(input0) - 1) :
            /\ Len(stdout) >= j * BLOCK_SIZE
            /\ ChunkOf(stdout, j - 1) =
                 XorBlocks(decryptBlock(ChunkOf(input0, j), kp),
                           ChunkOf(input0, j - 1))

\* A fault-free decryption of two full chunks after the IV has returned, the
\* second chunk not a copy of the first.
DecryptFullBlockOrderWitness ==
    /\ pc = "return" /\ flags /\ CleanRun
    /\ FullChunks(input0) >= 3
    /\ Len(stdout) >= 2 * BLOCK_SIZE
    /\ ChunkOf(input0, 1) # ChunkOf(input0, 2)
    /\ ChunkOf(input0, 1) # ConstBlock(0)

\* The final partial chunk of the current run is prepared for its write, or
\* written in full, by decryptStream (dec) or encryptStream (~dec).
TailCase(dec) ==
    /\ flags = dec
    /\ bytes \in 1..(BLOCK_SIZE - 1)
    /\ \/ pc = (IF dec THEN "d_tailwrite" ELSE "e_tailwrite")
       \/ pc = "return" /\ ret # -1

\* The bytes of the final chunk as the write sends them.
TailSent ==
    IF pc = "return"
    THEN SubSeq(stdout, (Len(stdout) - bytes) + 1, Len(stdout))
    ELSE BytesAt(buf, bp, bytes)

\* The bytes of the final chunk as the last read delivered them.
TailRead ==
    [j \in 1..bytes |-> input0[((Len(input0) - Len(stdin)) - bytes) + j]]

\* The final chunk after the XOR loop (i < bytes) and the memset.
TailXored ==
    [m \in 0..(BLOCK_SIZE - 1) |->
        IF m < bytes THEN Xor(TailRead[m + 1], BlockAt(buf, lbp)[m]) ELSE 0]

\* C12 as stated: for a final partial chunk of m bytes (1 <= m <= 7) read by
\* decryptStream, the m bytes emitted are chunk[i] XOR Cprev[i], no block
\* transform applied.
DecryptTailXorOnly ==
    TailCase(TRUE) =>
        TailSent = [j \in 1..bytes |-> Xor(TailRead[j], BlockAt(buf, lbp)[j - 1])]

\* C12, amended: for a final partial chunk of m bytes (1 <= m <= 7) read by
\* decryptStream, the m bytes emitted are the first m bytes of
\* decryptBlock(X, K), where X[i] = chunk[i] XOR Cprev[i] for i < m and
\* X[i] = 0 for i >= m; exactly m bytes are written.
DecryptTailTransformed ==
    TailCase(TRUE) =>
        /\ TailSent = BytesAt(decryptBlock(TailXored, kp), 0, bytes)
        /\ pc = "return" => ioLog[Len(ioLog)] = Call("write", STDOUT, bytes, bytes)

\* decryptStream has written a final partial chunk that followed at least one
\* full chunk after the IV.
DecryptTailTransformedWitness ==
    /\ TailCase(TRUE)
    /\ pc = "return"
    /\ n > BLOCK_SIZE
    /\ Len(stdout) = n

\* The final chunk as read, zero-padded to a block.
TailPadded ==
    [m \in 0..(BLOCK_SIZE - 1) |-> IF m < bytes THEN TailRead[m + 1] ELSE 0]

\* C13: for a final partial chunk of m bytes (1 <= m <= 7) read by
\* encryptStream, the m bytes emitted are the first m bytes of
\* encryptBlock(pad XOR Cprev, K), pad the chunk zero-padded to 8 bytes and
\* Cprev the previous emitted block, XORed over all 8 bytes; exactly m
\* bytes are written, never 8.
EncryptTail ==
    TailCase(FALSE) =>
        /\ TailSent =
             BytesAt(encryptBlock(XorBlocks(TailPadded, BlockAt(buf, lbp)), kp),
                     0, bytes)
        /\ pc = "return" =>
             /\ ioLog[Len(ioLog)] = Call("write", STDOUT, bytes, bytes)
             /\ CleanRun =>
                  /\ Len(stdout) = (BLOCK_SIZE + n)
                  /\ SubSeq(stdout, (Len(stdout) - bytes) - (BLOCK_SIZE - 1),
                            Len(stdout) - bytes) = BlockSeq(BlockAt(buf, lbp))

\* encryptStream has written a final partial chunk that followed at least one
\* full block of input.
EncryptTailWitness ==
    /\ TailCase(FALSE)
    /\ pc = "return"
    /\ CleanRun
    /\ n > BLOCK_SIZE
    /\ \E m \in bytes..(BLOCK_SIZE - 1) : BlockAt(buf, lbp)[m] # 0

\* The number of bytes the current run has consumed from standard input.
Consumed == Len(input0) - Len(stdin)

\* The positions of a stream routine at which the chain state is live: from
\* the first test of the loop to the write of the final block.
ChainLive ==
    pc \in {"e_read", "e_xform", "e_write", "e_tail", "e_tailwrite",
            "d_read", "d_xform", "d_write", "d_tail", "d_tailwrite"}

\* The chain state at a read of a new chunk: in encryptStream
\* encryptBlock(IV) before the first block and afterwards the last 8 bytes
\* written; in decryptStream the last 8 bytes read, as read, the first 8
\* input bytes before the first block, with nothing emitted for them.
ChainAtRead ==
    /\ pc = "e_read" =>
         /\ n = 0 => BlockAt(buf, lbp) = encryptBlock(iv, kp)
         /\ (n = 0 /\ CleanRun) => stdout = BlockSeq(BlockAt(buf, lbp))
         /\ n > 0 => SubSeq(stdout, Len(stdout) - (BLOCK_SIZE - 1), Len(stdout))
                       = BlockSeq(BlockAt(buf, lbp))
    /\ pc = "d_read" =>
         /\ Consumed = BLOCK_SIZE + n
         /\ BlockAt(buf, lbp) = ChunkOf(input0, (Consumed \div BLOCK_SIZE) - 1)
         /\ n = 0 => stdout = <<>>

\* A step of a stream routine: the rotation after the write of a full block
\* makes the block just processed the chain state; every other step leaves
\* lbp and the 8 bytes it points to as they are.
ChainStep ==
    ChainLive =>
        IF pc \in {"e_write", "d_write"} /\ pc' \in {"e_read", "d_read"}
        THEN lbp' = bp /\ buf' = buf
        ELSE lbp' = lbp /\ BlockAt(buf', lbp) = BlockAt(buf, lbp)

\* C14: at every read of a new input chunk the chain state (the block lbp
\* points to) holds the most recent full ciphertext block of the stream
\* (encryptStream: the last block written, at first encryptBlock(IV);
\* decryptStream: the last full block read, untransformed, at first the
\* first 8 input bytes); it changes only by the rotation that follows the
\* write of a block and is never modified while a block is XORed or
\* transformed.
ChainStateInvariant == []ChainAtRead /\ [][ChainStep]_vars

\* The rounds the running transform has finished.
RoundsDone == ROUNDS - brounds

\* The key index read at half-index i of the j-th round (j from 0) of the
\* running transform: r * k + i in encryptBlock, (15 - j) * k + i in
\* decryptBlock.
RoundKeyIndex(j, i) ==
    IF bmode = "enc"
    THEN (j * (BLOCK_SIZE \div 2)) + i
    ELSE (((ROUNDS - 1) - j) * (BLOCK_SIZE \div 2)) + i

\* The key indices read so far are those of the finished rounds in order,
\* all in 0..63, and after the last round each of the 64 exactly once.
KeyReadsInOrder ==
    bmode \in {"enc", "dec"} =>
        /\ Len(bkeyReads) = RoundsDone * (BLOCK_SIZE \div 2)
        /\ \A j \in 0..(RoundsDone - 1) : \A i \in 0..((BLOCK_SIZE \div 2) - 1) :
              bkeyReads[((j * (BLOCK_SIZE \div 2)) + i) + 1] = RoundKeyIndex(j, i)
        /\ \A x \in 1..Len(bkeyReads) : bkeyReads[x] \in 0..(KEY_LEN - 1)
        /\ brounds = 0 =>
              \A a \in 0..(KEY_LEN - 1) :
                 Cardinality({x \in 1..Len(bkeyReads) : bkeyReads[x] = a}) = 1

\* One round as a step: encryptBlock t = right[i]; right[i] = left[i] XOR
\* key byte; left[i] = t, decryptBlock the mirror image; the key as it was.
RoundUpdate ==
    /\ bkey' = bkey
    /\ (bmode \in {"enc", "dec"} /\ brounds' = brounds - 1) =>
          \A i \in 0..((BLOCK_SIZE \div 2) - 1) :
             LET k == BLOCK_SIZE \div 2
                 kb == bkey[RoundKeyIndex(RoundsDone, i) + 1]
             IN  IF bmode = "enc"
                 THEN blk'[i] = blk[k + i] /\ blk'[k + i] = Xor(blk[i], kb)
                 ELSE blk'[k + i] = blk[i] /\ blk'[i] = Xor(blk[k + i], kb)

\* C15: with k = 4, encryptBlock in round r at half-index i reads key byte
\* r*k + i and does t = right[i]; right[i] = left[i] XOR key byte;
\* left[i] = t; decryptBlock reads key byte (15 - j)*k + i in its j-th round
\* with the mirrored update; every key byte dereferenced has its index in
\* 0..63, each of the 64 is read exactly once per block, and the key is
\* never written.
RoundKeyOrder == []KeyReadsInOrder /\ [][RoundUpdate]_vars

\* An encryptBlock and then a decryptBlock have run to their last round.
RoundKeyOrderWitness ==
    /\ bops = <<"enc">>
    /\ bmode = "dec"
    /\ brounds = 0
    /\ Len(bkeyReads) = KEY_LEN
    /\ bkeyReads[1] = KEY_LEN - (BLOCK_SIZE \div 2)

\* The x-th system call of the current run is a read of a data chunk from
\* standard input (in decryptStream the first read is that of the IV block).
DataReadAt(x) == IsStdinRead(ioLog[x]) /\ (flags => x > 1)

\* The x-th system call of the current run is a write of c bytes to standard
\* output, whatever it returned.
WriteOfAt(x, c) == IsStdoutWrite(ioLog[x]) /\ ioLog[x].req = c

\* C16: in both routines the first data read that returns fewer than
\* BLOCK_SIZE bytes ends the loop: after 1..7 bytes exactly one more write,
\* of that many bytes, follows, after 0 none, and no read of standard input
\* follows either; every read that returned 8 bytes is followed by exactly
\* one 8-byte write before the next read.
ReadFraming ==
    \A x \in 1..Len(ioLog) :
        DataReadAt(x) =>
            LET r == ioLog[x].res
            IN  /\ r = BLOCK_SIZE =>
                    /\ x < Len(ioLog) => WriteOfAt(x + 1, BLOCK_SIZE)
                    /\ x + 1 < Len(ioLog) => IsStdinRead(ioLog[x + 2])
                    /\ StreamRan => x < Len(ioLog)
                /\ r \in 1..(BLOCK_SIZE - 1) =>
                    /\ Len(ioLog) <= x + 1
                    /\ x < Len(ioLog) => WriteOfAt(x + 1, r)
                    /\ StreamRan => Len(ioLog) = x + 1
                /\ r = 0 => Len(ioLog) = x

\* decryptStream has returned after two full data chunks and a partial one.
ReadFramingWitness ==
    /\ pc = "return"
    /\ flags
    /\ Len(ioLog) = 7
    /\ DataReadAt(2) /\ ioLog[2].res = BLOCK_SIZE
    /\ DataReadAt(6) /\ ioLog[6].res \in 1..(BLOCK_SIZE - 1)
    /\ WriteOfAt(7, ioLog[6].res)

\* lbp, bp (and in decryptStream obp) point at distinct 8-byte slots of buf.
SlotsDistinct ==
    LET slots == IF flags THEN {lbp, bp, obp} ELSE {lbp, bp}
    IN  /\ Cardinality(DOMAIN buf) = (IF flags THEN 3 ELSE 2) * BLOCK_SIZE
        /\ Cardinality(slots) = (IF flags THEN 3 ELSE 2)
        /\ \A p \in slots : p % BLOCK_SIZE = 0 /\ InBuf(buf, p, p + BLOCK_SIZE)

\* C17: for every sequence of read results (8, a short count, 0 or the error
\* value -1) after any number of full blocks, every byte the stream
\* routines read or write (XOR loops, memcpy, the memset that pads the
\* tail, the block transform, the source of the write) lies inside buf, and
\* lbp, bp (and obp) designate distinct non-overlapping 8-byte slots of buf.
BufferBounds ==
    /\ ~oob
    /\ ChainLive => SlotsDistinct
    /\ pc \in {"e_tail", "d_tail"} => InBuf(buf, bp + bytes, bp + BLOCK_SIZE)
    /\ pc \in {"e_tailwrite", "d_tailwrite"} =>
         bytes >= 0 /\ InBuf(buf, bp, bp + bytes)

RECURSIVE MaskFrom(_, _, _)
\* key[8j + m] XOR key[8(j+1) + m] XOR ... XOR key[56 + m]
MaskFrom(key, m, j) ==
    IF j >= KEY_LEN \div BLOCK_SIZE THEN 0
    ELSE Xor(KeyByte(key, (j * BLOCK_SIZE) + m), MaskFrom(key, m, j + 1))

\* The mask of a key: for each byte position m, the XOR of the key bytes at
\* m, 8 + m, ..., 56 + m.
KeyMask(key) == [m \in 0..(BLOCK_SIZE - 1) |-> MaskFrom(key, m, 0)]

\* C18: for every block B and key K, encryptBlock(B, K)[m] = B[m] XOR
\* (key[m] XOR key[8+m] XOR ... XOR key[56+m]) for each m in 0..7, and
\* decryptBlock(B, K) is the same function; hence
\* encryptBlock(X XOR Y, K) = encryptBlock(X, K) XOR Y for all blocks X, Y.
ClosedForm ==
    /\ \A j \in 1..Len(bops) :
          bvals[j + 1] = XorBlocks(bvals[j], KeyMask(bkey))
    /\ (bmode = "ready" /\ bkey # <<>>) =>
          \A y \in BlockInputs :
             /\ encryptBlock(XorBlocks(blk, y), bkey)
                  = XorBlocks(encryptBlock(blk, bkey), y)
             /\ decryptBlock(XorBlocks(blk, y), bkey)
                  = XorBlocks(decryptBlock(blk, bkey), y)
             /\ decryptBlock(y, bkey) = encryptBlock(y, bkey)

\* One encryptBlock and one decryptBlock have returned, under a key whose
\* mask has no zero byte.
ClosedFormWitness ==
    /\ bmode = "ready"
    /\ bops = <<"dec", "enc">>
    /\ \A m \in 0..(BLOCK_SIZE - 1) : KeyMask(bkey)[m] # 0
    /\ bvals[2] # bvals[1]
    /\ bvals[3] = bvals[1]

\* C19: if the first read of decryptStream returns anything other than
\* exactly 8 bytes (empty input, 1..7 bytes, or a read error), decryptStream
\* returns -1 having written nothing to standard output and issued no
\* further read.
TruncatedCiphertext ==
    (flags /\ Len(ioLog) >= 1 /\ ioLog[1].res # BLOCK_SIZE) =>
        /\ IsStdinRead(ioLog[1])
        /\ Len(ioLog) = 1
        /\ stdout = <<>>
        /\ StreamRan
        /\ ret = -1
        /\ msg # "count"

\* decryptStream was given 1..7 bytes and main has reported the failure.
TruncatedCiphertextWitness ==
    /\ flags
    /\ pc = "exit"
    /\ msg = "failure"
    /\ Len(input0) \in 1..(BLOCK_SIZE - 1)
    /\ ioLog = <<Call("read", STDIN, BLOCK_SIZE, Len(input0))>>

====
